---- MODULE Spec2Model ----
(***************************************************************************)
(* The matching core of REG_NMS: one MatchingEngine (one symbol) with its  *)
(* OrderBook, the PriceLevels of both sides and the Order objects the      *)
(* submitter hands in.  process_order and cancel_order are the two         *)
(* state-changing operations; each is one action that runs the whole call, *)
(* including every exception path of the Python code.                      *)
(***************************************************************************)
EXTENDS Integers, Sequences, FiniteSets, TLC

\* ------------------------------------------------------------------ bounds
\* Number of Order objects the submitter creates in one behaviour.
MaxOrders == 2
\* Prices and stop prices are the decimals 1..MaxPrice.
MaxPrice == 2
\* Quantities are the decimals 1..MaxQty.
MaxQty == 2

\* ------------------------------------------------------------- vocabulary
\* Python's None for an absent price / stop_price / best price.
None == -1

BUY == "buy"
SELL == "sell"
OrderSide == {BUY, SELL}

MARKET == "market"
LIMIT == "limit"
IOC == "ioc"
FOK == "fok"
STOP_LOSS == "stop_loss"
STOP_LIMIT == "stop_limit"
TAKE_PROFIT == "take_profit"
OrderType == {MARKET, LIMIT, IOC, FOK, STOP_LOSS, STOP_LIMIT, TAKE_PROFIT}
StopTypes == {STOP_LOSS, STOP_LIMIT, TAKE_PROFIT}

PENDING == "pending"
OPEN == "open"
PARTIALLY_FILLED == "partially_filled"
FILLED == "filled"
CANCELLED == "cancelled"
REJECTED == "rejected"
OrderStatus == {PENDING, OPEN, PARTIALLY_FILLED, FILLED, CANCELLED, REJECTED}

\* Exceptions are carried as their class name; NoExc means none is in flight.
NoExc == "none"

\* Whether the name OrderType is bound in order_book.py.  Its line 7 imports
\* Order, OrderSide and OrderStatus from src.order and nothing else, so the
\* lookup of OrderType inside can_match raises NameError.
OrderTypeImported == FALSE

Prices == 1..MaxPrice
Quantities == 1..MaxQty

\* -------------------------------------------------------------- functions
\* f with key k bound to v (dict.__setitem__).
Put(f, k, v) == [x \in (DOMAIN f) \cup {k} |-> IF x = k THEN v ELSE f[x]]
\* f without key k (dict.__delitem__).
Del(f, k) == [x \in (DOMAIN f) \ {k} |-> f[x]]
EmptyMap == [x \in {} |-> 0]

Min(a, b) == IF a <= b THEN a ELSE b

RECURSIVE SeqSum(_)
SeqSum(s) == IF s = <<>> THEN 0 ELSE Head(s) + SeqSum(Tail(s))

\* s without its i-th element.
RemoveAt(s, i) == SubSeq(s, 1, i - 1) \o SubSeq(s, i + 1, Len(s))
\* s with v inserted so that it becomes the i-th element.
InsertAt(s, i, v) == SubSeq(s, 1, i - 1) \o <<v>> \o SubSeq(s, i, Len(s))
\* Index of the first occurrence of v in s, 0 when absent.
IndexOf(s, v) ==
    IF \E i \in 1..Len(s) : s[i] = v
    THEN CHOOSE i \in 1..Len(s) : s[i] = v /\ \A j \in 1..(i - 1) : s[j] # v
    ELSE 0
Range(s) == {s[i] : i \in 1..Len(s)}

\* ------------------------------------------------------------------ Order
\* A constructor that forgets `remaining_quantity = quantity` (order.py
\* lines 48-49 left out): the variant C10 is tested against.
NewOrderNoRemaining(id, ty, sd, qty, px, stop) ==
    [order_id |-> id, order_type |-> ty, side |-> sd, quantity |-> qty,
     price |-> px, stop_price |-> stop, status |-> PENDING,
     filled_quantity |-> 0, remaining_quantity |-> 0]
\* Order.__post_init__: status PENDING, nothing filled, remaining = quantity.
NewOrder(id, ty, sd, qty, px, stop) ==
    [order_id |-> id, order_type |-> ty, side |-> sd, quantity |-> qty,
     price |-> px, stop_price |-> stop, status |-> PENDING,
     filled_quantity |-> 0, remaining_quantity |-> qty]

\* Order._validate, run by the constructor: the orders a submitter can build.
Constructible(ty, qty, px, stop) ==
    /\ qty > 0
    /\ (ty \in {LIMIT, STOP_LIMIT} => px # None)
    /\ (ty \in StopTypes => stop # None)

\* Order.update_fill.
update_fill(o, fill_quantity) ==
    LET f == o.filled_quantity + fill_quantity
        r == o.remaining_quantity - fill_quantity
    IN [o EXCEPT !.filled_quantity = f,
                 !.remaining_quantity = r,
                 !.status = IF r <= 0 THEN FILLED
                            ELSE IF f > 0 THEN PARTIALLY_FILLED
                            ELSE o.status]

\* ------------------------------------------------------------- PriceLevel
\* A level holds the handles of its queued Order objects, head first.
NewPriceLevel == [orders |-> <<>>, total_quantity |-> 0]

\* An add_order that queues at the head (appendleft for append): the
\* variant C6 is tested against.
PriceLevel_add_order_front(lvl, h, remaining) ==
    [orders |-> <<h>> \o lvl.orders,
     total_quantity |-> lvl.total_quantity + remaining]
\* PriceLevel.add_order.
PriceLevel_add_order(lvl, h, remaining) ==
    [orders |-> Append(lvl.orders, h),
     total_quantity |-> lvl.total_quantity + remaining]

\* A remove_order that leaves total_quantity as it was (line 27 left out):
\* the variant C9 is tested against.
PriceLevel_remove_order_stale(lvl, h, remaining) ==
    IF IndexOf(lvl.orders, h) = 0
    THEN [lvl |-> lvl, ret |-> FALSE]
    ELSE [lvl |-> [orders |-> RemoveAt(lvl.orders, IndexOf(lvl.orders, h)),
                   total_quantity |-> lvl.total_quantity],
          ret |-> TRUE]
\* PriceLevel.remove_order: deque.remove of the order (ValueError is caught
\* and reported as False), then the cache is reduced by its remainder.
PriceLevel_remove_order(lvl, h, remaining) ==
    IF IndexOf(lvl.orders, h) = 0
    THEN [lvl |-> lvl, ret |-> FALSE]
    ELSE [lvl |-> [orders |-> RemoveAt(lvl.orders, IndexOf(lvl.orders, h)),
                   total_quantity |-> lvl.total_quantity - remaining],
          ret |-> TRUE]

\* PriceLevel.get_first_order: the head handle, or None.
PriceLevel_get_first_order(lvl) ==
    IF lvl.orders # <<>> THEN lvl.orders[1] ELSE None

\* PriceLevel.pop_first_order (called on a non-empty level).
PriceLevel_pop_first_order(lvl, remaining) ==
    IF lvl.orders = <<>> THEN lvl
    ELSE [orders |-> Tail(lvl.orders),
          total_quantity |-> lvl.total_quantity - remaining]

\* ------------------------------------------------------------- SortedDict
\* sortedcontainers.SortedDict is a dict plus a sorted list of its keys; the
\* two are updated one after the other, so an exception between the two
\* updates leaves them apart.  A side is [d |-> price -> PriceLevel, l |-> key list].
\* bids = SortedDict(lambda x: -x) keeps l descending, asks ascending.
NewSortedDict == [d |-> EmptyMap, l |-> <<>>]

\* SortedKeyList.add (bids) / SortedList.add (asks) of key v.
\* bids: the key function -x raises TypeError on None before anything else.
\* asks: an empty list takes any value without comparing; otherwise v is
\* first compared with the list's maximum (its last element).
ListAdd(sd, l, v) ==
    IF sd = BUY
    THEN IF v = None THEN [l |-> l, exc |-> "TypeError"]
         ELSE [l |-> InsertAt(l, 1 + Cardinality({i \in 1..Len(l) : l[i] >= v}), v),
               exc |-> NoExc]
    ELSE IF l = <<>> THEN [l |-> <<v>>, exc |-> NoExc]
         ELSE IF v = None \/ l[Len(l)] = None THEN [l |-> l, exc |-> "TypeError"]
         ELSE [l |-> InsertAt(l, 1 + Cardinality({i \in 1..Len(l) : l[i] <= v}), v),
               exc |-> NoExc]

\* SortedKeyList.remove (bids) / SortedList.remove (asks) of key v.
ListRemove(sd, l, v) ==
    IF l = <<>> THEN [l |-> l, exc |-> "ValueError"]
    ELSE IF sd = BUY
    THEN IF v = None THEN [l |-> l, exc |-> "TypeError"]
         ELSE IF IndexOf(l, v) = 0 THEN [l |-> l, exc |-> "ValueError"]
         ELSE [l |-> RemoveAt(l, IndexOf(l, v)), exc |-> NoExc]
    ELSE IF v = None \/ l[Len(l)] = None THEN [l |-> l, exc |-> "TypeError"]
         ELSE IF IndexOf(l, v) = 0 THEN [l |-> l, exc |-> "ValueError"]
         ELSE [l |-> RemoveAt(l, IndexOf(l, v)), exc |-> NoExc]

\* SortedDict.setdefault(key, PriceLevel(key)): a present key changes
\* nothing; an absent one is stored in the dict and then added to the list.
SortedDict_setdefault(sd, s, key) ==
    IF key \in DOMAIN s.d THEN [s |-> s, exc |-> NoExc]
    ELSE LET la == ListAdd(sd, s.l, key)
         IN [s |-> [d |-> Put(s.d, key, NewPriceLevel), l |-> la.l],
             exc |-> la.exc]

\* SortedDict.__delitem__: dict.__delitem__, then the list's remove.
SortedDict_delitem(sd, s, key) ==
    IF key \notin DOMAIN s.d THEN [s |-> s, exc |-> "KeyError"]
    ELSE LET lr == ListRemove(sd, s.l, key)
         IN [s |-> [d |-> Del(s.d, key), l |-> lr.l], exc |-> lr.exc]

\* SortedDict.peekitem(0)[0] guarded by the dict's truth value, as in
\* get_best_bid / get_best_ask: None for an empty dict, else the first key
\* of the list (IndexError) looked up in the dict (KeyError).
SortedDict_best(s) ==
    IF DOMAIN s.d = {} THEN [ret |-> None, exc |-> NoExc]
    ELSE IF s.l = <<>> THEN [ret |-> None, exc |-> "IndexError"]
    ELSE IF s.l[1] \notin DOMAIN s.d THEN [ret |-> None, exc |-> "KeyError"]
    ELSE [ret |-> s.l[1], exc |-> NoExc]

\* -------------------------------------------------------------- OrderBook
\* The running call works on a record e of everything it can reach:
\*   objs         the Order objects, by handle (the index of creation)
\*   bids, asks   the two SortedDicts of the book
\*   orders       the book's id map, order_id -> handle
\*   best_bid, best_ask   the book's cached _best_bid / _best_ask
\*   trade_count  the engine's counter
\*   events       the events emitted during the call
\*   raising      the subscribers whose callback raises during the call
\*   calls        the callback invocations made during the call
\*   exc          the exception in flight, ret the value just returned
Raise(e, x) == [e EXCEPT !.exc = x]
Return(e, v) == [e EXCEPT !.ret = v]

BookSide(e, sd) == IF sd = BUY THEN e.bids ELSE e.asks
SetBookSide(e, sd, s) ==
    IF sd = BUY THEN [e EXCEPT !.bids = s] ELSE [e EXCEPT !.asks = s]
Opposite(sd) == IF sd = BUY THEN SELL ELSE BUY

\* OrderBook.get_best_bid / get_best_ask.
get_best_bid(e) == SortedDict_best(e.bids)
get_best_ask(e) == SortedDict_best(e.asks)

\* OrderBook._update_bbo: the bid cache is assigned before the ask is read.
update_bbo_with(e, b, a) ==
    IF b.exc # NoExc THEN Raise(e, b.exc)
    ELSE IF a.exc # NoExc THEN Raise([e EXCEPT !.best_bid = b.ret], a.exc)
    ELSE [e EXCEPT !.best_bid = b.ret, !.best_ask = a.ret]

_update_bbo(e) == update_bbo_with(e, get_best_bid(e), get_best_ask(e))

\* OrderBook.add_order of the order with handle h, in the order of its
\* statements: the id map, setdefault on the side, PriceLevel.add_order,
\* _update_bbo, the status.
add_order_opened(e4, h) ==
    IF e4.exc # NoExc THEN e4
    ELSE Return([e4 EXCEPT !.objs[h].status = OPEN], TRUE)

add_order_level(e1, h, o, sdf) ==
    IF sdf.exc # NoExc THEN Raise(SetBookSide(e1, o.side, sdf.s), sdf.exc)
    ELSE add_order_opened(
           _update_bbo(SetBookSide(e1, o.side,
               [sdf.s EXCEPT !.d[o.price] =
                   PriceLevel_add_order(@, h, o.remaining_quantity)])), h)

add_order(e, h) ==
    IF e.objs[h].order_id \in DOMAIN e.orders THEN Return(e, FALSE)
    ELSE add_order_level([e EXCEPT !.orders = Put(@, e.objs[h].order_id, h)],
                         h, e.objs[h],
                         SortedDict_setdefault(e.objs[h].side,
                                               BookSide(e, e.objs[h].side),
                                               e.objs[h].price))

\* OrderBook.remove_order: ret is the handle of the removed order, or None.
\* The id is dropped from the id map first; then the order is taken out of
\* its level, an emptied level is deleted, _update_bbo runs and the status
\* is set.
remove_order_cancelled(e3, h) ==
    IF e3.exc # NoExc THEN e3
    ELSE Return([e3 EXCEPT !.objs[h].status = CANCELLED], h)

remove_order_deleted(e1, h, sd, dl) ==
    IF dl.exc # NoExc THEN Raise(SetBookSide(e1, sd, dl.s), dl.exc)
    ELSE remove_order_cancelled(_update_bbo(SetBookSide(e1, sd, dl.s)), h)

remove_order_level(e1, h, o, s, rm) ==
    IF rm.ret /\ rm.lvl.orders = <<>>
    THEN remove_order_deleted(e1, h, o.side,
             SortedDict_delitem(o.side, [s EXCEPT !.d[o.price] = rm.lvl], o.price))
    ELSE IF rm.ret
    THEN remove_order_deleted(e1, h, o.side,
             [s |-> [s EXCEPT !.d[o.price] = rm.lvl], exc |-> NoExc])
    ELSE remove_order_deleted(e1, h, o.side, [s |-> s, exc |-> NoExc])

remove_order_found(e1, h, o, s) ==
    remove_order_level(e1, h, o, s,
        IF o.price \in DOMAIN s.d
        THEN PriceLevel_remove_order(s.d[o.price], h, o.remaining_quantity)
        ELSE [lvl |-> NewPriceLevel, ret |-> FALSE])

remove_order(e, order_id) ==
    IF order_id \notin DOMAIN e.orders THEN Return(e, None)
    ELSE remove_order_found([e EXCEPT !.orders = Del(@, order_id)],
                            e.orders[order_id], e.objs[e.orders[order_id]],
                            BookSide(e, e.objs[e.orders[order_id]].side))

\* OrderBook.can_match.  `best is not None and (order_type == OrderType.MARKET
\* or price >= best)`: with a best price at hand the right operand is
\* evaluated, and it starts with the lookup of the name OrderType.
can_match(e, o) ==
    LET b == IF o.side = BUY THEN get_best_ask(e) ELSE get_best_bid(e)
    IN IF b.exc # NoExc THEN [ret |-> FALSE, exc |-> b.exc]
       ELSE IF b.ret = None THEN [ret |-> FALSE, exc |-> NoExc]
       ELSE IF ~OrderTypeImported THEN [ret |-> FALSE, exc |-> "NameError"]
       ELSE IF o.order_type = MARKET THEN [ret |-> TRUE, exc |-> NoExc]
       ELSE IF o.price = None THEN [ret |-> FALSE, exc |-> "TypeError"]
       ELSE [ret |-> IF o.side = BUY THEN o.price >= b.ret ELSE o.price <= b.ret,
             exc |-> NoExc]

\* OrderBook.get_best_bid_quantity / get_best_ask_quantity of one side.
best_quantity(s) ==
    IF DOMAIN s.d = {} THEN [ret |-> 0, exc |-> NoExc]
    ELSE LET b == SortedDict_best(s)
         IN IF b.exc # NoExc THEN [ret |-> 0, exc |-> b.exc]
            ELSE IF b.ret \notin DOMAIN s.d THEN [ret |-> 0, exc |-> "KeyError"]
            ELSE [ret |-> s.d[b.ret].total_quantity, exc |-> NoExc]

\* One side of OrderBook.get_market_depth: the first `depth` keys of the
\* sorted list, each looked up in the dict (KeyError when it is not there).
\* The loop fetches an item before it tests i >= depth.
side_depth(s, depth) ==
    LET n == Min(depth, Len(s.l))
        looked == Min(depth + 1, Len(s.l))
    IN IF \E i \in 1..looked : s.l[i] \notin DOMAIN s.d
       THEN [ret |-> <<>>, exc |-> "KeyError"]
       ELSE [ret |-> [i \in 1..n |-> <<s.l[i], s.d[s.l[i]].total_quantity>>],
             exc |-> NoExc]

\* -------------------------------------------------------------- EventBus
\* Fee rates of config.py in thousandths: 0.001 and 0.002.
MAKER_FEE_RATE == 1
TAKER_FEE_RATE == 2

\* FeeCalculator.calculate_maker_fee / calculate_taker_fee, in thousandths.
calculate_maker_fee(price, quantity) == price * quantity * MAKER_FEE_RATE
calculate_taker_fee(price, quantity) == price * quantity * TAKER_FEE_RATE

\* Callbacks subscribed to every event type of the engine's bus, in the
\* order of their subscription.
NumSubscribers == 2

\* One callback of the bus is called with the event ev: e.calls records the
\* invocation, and whether the callback raised (those of e.raising do).
callback(e, ev, i) ==
    [e EXCEPT !.calls = Append(@, [sub |-> i, ev |-> ev,
                                   raised |-> i \in e.raising])]

\* An emit without its try / except (lines 42 and 44-45 left out): the
\* exception of a callback ends the loop and leaves emit.  The variant C26
\* is tested against.
RECURSIVE emit_to_unguarded(_, _, _)
emit_to_unguarded(e, ev, i) ==
    IF i > NumSubscribers THEN e
    ELSE IF i \in e.raising THEN Raise(callback(e, ev, i), "CallbackError")
    ELSE emit_to_unguarded(callback(e, ev, i), ev, i + 1)

\* The loop of EventBus.emit over the subscribers, from the i-th on: what a
\* callback raises is caught and logged, and the loop goes on.
RECURSIVE emit_to(_, _, _)
emit_to(e, ev, i) ==
    IF i > NumSubscribers THEN e
    ELSE emit_to(callback(e, ev, i), ev, i + 1)

\* EventBus.emit(event_type, data); e.events is the sequence of events
\* emitted during the call.
emit(e, ev) == emit_to([e EXCEPT !.events = Append(@, ev)], ev, 1)

\* `str(x) if x else None` of _emit_bbo_update: None and zero both give None.
StrOrNone(x) == IF x = None \/ x = 0 THEN None ELSE x

\* MatchingEngine._emit_bbo_update: get_bbo, get_market_depth(10), the two
\* best quantities, then the event.
emit_bbo_with(e, b, a, db, da, qb, qa) ==
    IF b.exc # NoExc THEN Raise(e, b.exc)
    ELSE IF a.exc # NoExc THEN Raise(e, a.exc)
    ELSE IF db.exc # NoExc THEN Raise(e, db.exc)
    ELSE IF da.exc # NoExc THEN Raise(e, da.exc)
    ELSE IF qb.exc # NoExc THEN Raise(e, qb.exc)
    ELSE IF qa.exc # NoExc THEN Raise(e, qa.exc)
    ELSE emit(e, [type |-> "bbo_update",
                  best_bid |-> StrOrNone(b.ret),
                  best_ask |-> StrOrNone(a.ret),
                  best_bid_quantity |-> qb.ret,
                  best_ask_quantity |-> qa.ret,
                  bids |-> db.ret, asks |-> da.ret])

_emit_bbo_update(e) ==
    emit_bbo_with(e, get_best_bid(e), get_best_ask(e),
                  side_depth(e.bids, 10), side_depth(e.asks, 10),
                  best_quantity(e.bids), best_quantity(e.asks))

\* -------------------------------------------------------- MatchingEngine
\* A _validate_order without its quantity test (lines 216-217 left out):
\* the variant C17 is tested against.
_validate_order_no_quantity(o) ==
    IF o.order_type \in {LIMIT, STOP_LIMIT} /\ o.price = None THEN "ValueError"
    ELSE IF o.order_type \in StopTypes /\ o.stop_price = None THEN "ValueError"
    ELSE NoExc
\* MatchingEngine._validate_order.
_validate_order(o) ==
    IF o.quantity <= 0 THEN "ValueError"
    ELSE IF o.order_type \in {LIMIT, STOP_LIMIT} /\ o.price = None THEN "ValueError"
    ELSE IF o.order_type \in StopTypes /\ o.stop_price = None THEN "ValueError"
    ELSE NoExc

\* The Trade built in _match_order, with its fees.
NewTrade(price, quantity, taker, maker) ==
    [type |-> "trade", price |-> price, quantity |-> quantity,
     aggressor_side |-> taker.side,
     maker_order_id |-> maker.order_id, taker_order_id |-> taker.order_id,
     maker_fee |-> calculate_maker_fee(price, quantity),
     taker_fee |-> calculate_taker_fee(price, quantity)]

\* The statements after the while loop of _match_order.
match_done(e, trades) ==
    Return([e EXCEPT !.trade_count = @ + Len(trades)], trades)

\* The while loop of MatchingEngine._match_order for the taker with handle
\* t, one operator per stretch of the loop body; trades are the trades made
\* so far and ret is the list the method returns.
RECURSIVE match_loop(_, _, _)

\* After the TRADE event: the IOC and FOK conditions.  _rollback_fill only
\* writes a log line, and the FOK branch returns [] past the trade_count
\* update.
match_post(e3, t, trades) ==
    IF e3.exc # NoExc THEN e3
    ELSE IF e3.objs[t].order_type = IOC /\ e3.objs[t].remaining_quantity > 0
    THEN match_done([e3 EXCEPT !.objs[t].status = CANCELLED], trades)
    ELSE IF e3.objs[t].order_type = FOK /\ e3.objs[t].remaining_quantity > 0
    THEN Return([e3 EXCEPT !.objs[t].status = CANCELLED], <<>>)
    ELSE match_loop(e3, t, trades)

\* event_bus.emit(EventType.TRADE, trade.to_dict()).
match_emit(e2, t, trades) ==
    match_post(emit(e2, trades[Len(trades)]), t, trades)

\* `del self.order_book.asks[best_price]` (or bids) has run.
match_deleted(e1, t, trades, opp, dl) ==
    IF dl.exc # NoExc THEN Raise(SetBookSide(e1, opp, dl.s), dl.exc)
    ELSE match_emit(SetBookSide(e1, opp, dl.s), t, trades)

\* "Remove maker if fully filled": pop the head, drop an emptied level.
match_pop(e1, t, m, opp, best_price, trades) ==
    IF ~(e1.objs[m].remaining_quantity <= 0) THEN match_emit(e1, t, trades)
    ELSE
      LET s == BookSide(e1, opp)
          s2 == [s EXCEPT !.d[best_price] =
                    PriceLevel_pop_first_order(@, e1.objs[m].remaining_quantity)]
      IN IF s2.d[best_price].orders # <<>>
         THEN match_emit(SetBookSide(e1, opp, s2), t, trades)
         ELSE match_deleted(e1, t, trades, opp,
                            SortedDict_delitem(opp, s2, best_price))

\* The fill: quantity, execution price (the maker's), the Trade with its
\* fees, update_fill on both orders.
match_fill(e, t, m, opp, best_price, fill_quantity, trades) ==
    match_pop([e EXCEPT !.objs[t] = update_fill(@, fill_quantity),
                        !.objs[m] = update_fill(@, fill_quantity)],
              t, m, opp, best_price,
              Append(trades, NewTrade(e.objs[m].price, fill_quantity,
                                      e.objs[t], e.objs[m])))

\* The head of the best level is the maker.
match_maker(e, t, m, opp, best_price, trades) ==
    IF m = None THEN match_done(e, trades)
    ELSE match_fill(e, t, m, opp, best_price,
                    Min(e.objs[t].remaining_quantity, e.objs[m].remaining_quantity),
                    trades)

\* The best opposite price bp, and the price check for LIMIT takers.
match_at(e, t, trades, taker, bp) ==
    IF bp.exc # NoExc THEN Raise(e, bp.exc)
    ELSE IF bp.ret = None THEN match_done(e, trades)
    ELSE IF /\ taker.order_type = LIMIT
            /\ \/ taker.side = BUY /\ taker.price < bp.ret
               \/ taker.side = SELL /\ taker.price > bp.ret
         THEN match_done(e, trades)
    ELSE match_maker(e, t,
             PriceLevel_get_first_order(BookSide(e, Opposite(taker.side)).d[bp.ret]),
             Opposite(taker.side), bp.ret, trades)

\* The loop condition, given what can_match answered.
match_guard(e, t, trades, taker, cm) ==
    IF cm.exc # NoExc THEN Raise(e, cm.exc)
    ELSE IF ~cm.ret THEN match_done(e, trades)
    ELSE match_at(e, t, trades, taker,
                  IF taker.side = BUY THEN get_best_ask(e) ELSE get_best_bid(e))

match_loop(e, t, trades) ==
    IF ~(e.objs[t].remaining_quantity > 0) THEN match_done(e, trades)
    ELSE match_guard(e, t, trades, e.objs[t], can_match(e, e.objs[t]))

\* MatchingEngine._match_order.
_match_order(e, t) == match_loop(e, t, <<>>)

\* The conversion of a triggered stop order in _handle_stop_order.
stop_converted(o) ==
    IF o.order_type = STOP_LOSS
    THEN [o EXCEPT !.order_type = MARKET, !.price = None]
    ELSE IF o.order_type \in {STOP_LIMIT, TAKE_PROFIT}
    THEN [o EXCEPT !.order_type = LIMIT]
    ELSE o

\* The trigger condition of _handle_stop_order on the BBO (b, a).
trigger_condition(o, b, a) ==
    IF o.side = BUY THEN a # None /\ a <= o.stop_price
    ELSE b # None /\ b >= o.stop_price

\* The untriggered branch: add_order, then return [].
stop_rested(added) ==
    IF added.exc # NoExc THEN added ELSE Return(added, <<>>)

\* MatchingEngine._handle_stop_order, given get_bbo() = (b, a).
stop_bbo(e, h, b, a) ==
    IF b.exc # NoExc THEN Raise(e, b.exc)
    ELSE IF a.exc # NoExc THEN Raise(e, a.exc)
    ELSE IF trigger_condition(e.objs[h], b.ret, a.ret)
    THEN _match_order([e EXCEPT !.objs[h] = stop_converted(@)], h)
    ELSE stop_rested(add_order(e, h))

_handle_stop_order(e, h) == stop_bbo(e, h, get_best_bid(e), get_best_ask(e))

\* The try block of MatchingEngine._process_order_internal, one operator
\* per statement: validation, the stop branch, can_match and _match_order,
\* resting a LIMIT remainder, the BBO update.
process_emitted(e3, trades) ==
    IF e3.exc # NoExc THEN e3 ELSE Return(e3, trades)

process_rested(e2, h, trades) ==
    IF e2.exc # NoExc THEN e2
    ELSE process_emitted(
           IF trades # <<>> \/ e2.objs[h].order_type = LIMIT
           THEN _emit_bbo_update(e2) ELSE e2,
           trades)

\* A _process_order_internal that rests any remainder, whatever the order
\* type (the `order_type == LIMIT` test of line 83 left out): the variant
\* C11 is tested against.
process_matched_any_type(e1, h) ==
    IF e1.exc # NoExc THEN e1
    ELSE process_rested(
           IF e1.objs[h].remaining_quantity > 0
           THEN add_order(e1, h) ELSE e1,
           h, e1.ret)
process_matched(e1, h) ==
    IF e1.exc # NoExc THEN e1
    ELSE process_rested(
           IF e1.objs[h].order_type = LIMIT /\ e1.objs[h].remaining_quantity > 0
           THEN add_order(e1, h) ELSE e1,
           h, e1.ret)

process_matchable(e, h, cm) ==
    IF cm.exc # NoExc THEN Raise(e, cm.exc)
    ELSE process_matched(IF cm.ret THEN _match_order(e, h) ELSE Return(e, <<>>), h)

process_try(e, h) ==
    IF _validate_order(e.objs[h]) # NoExc THEN Raise(e, _validate_order(e.objs[h]))
    ELSE IF e.objs[h].order_type \in StopTypes THEN _handle_stop_order(e, h)
    ELSE process_matchable(e, h, can_match(e, e.objs[h]))

\* The except clause: any exception marks the order REJECTED and is raised
\* again.
process_except(r, h) ==
    IF r.exc # NoExc
    THEN [r EXCEPT !.objs[h].status = REJECTED, !.ret = <<>>]
    ELSE r

\* MatchingEngine._process_order_internal.
_process_order_internal(e, h) == process_except(process_try(e, h), h)

\* MatchingEngine.cancel_order.
cancel_order(e, order_id) == remove_order(e, order_id)

\* ----------------------------------------------------------- asyncio.Lock
\* engine.lock = asyncio.Lock(): a flag and the queue of waiting tasks.
NewLock == [locked |-> FALSE, waiters |-> <<>>]

\* Lock.acquire by task t: a free lock is taken at once, without giving up
\* the event loop; on a held lock the task joins the waiters and suspends.
lock_acquire(lk, t) ==
    IF ~lk.locked
    THEN [lock |-> [lk EXCEPT !.locked = TRUE], acquired |-> TRUE]
    ELSE [lock |-> [lk EXCEPT !.waiters = Append(@, t)], acquired |-> FALSE]

\* An `async with` that does not give the lock back: the variant C21 is
\* tested against.
lock_release_never(lk) == [lock |-> lk, woken |-> <<>>]
\* Lock.release, run by `async with` on every way out of its block: the
\* flag is cleared and the first waiter is made ready again.
lock_release(lk) ==
    IF lk.waiters = <<>>
    THEN [lock |-> [lk EXCEPT !.locked = FALSE], woken |-> <<>>]
    ELSE [lock |-> [locked |-> FALSE, waiters |-> Tail(lk.waiters)],
          woken |-> <<Head(lk.waiters)>>]

\* ------------------------------------------------------------------ state
VARIABLES
    objs,        \* the Order objects created so far, by handle
    bids,        \* order_book.bids
    asks,        \* order_book.asks
    orders,      \* order_book.orders: order_id -> handle
    best_bid,    \* order_book._best_bid
    best_ask,    \* order_book._best_ask
    trade_count, \* engine.trade_count
    last,        \* the call that returned last: what it was given, what it
                 \* returned or raised, the events it emitted and the
                 \* objects and book it started from
    ready,       \* the event loop's queue of tasks that are ready to run,
                 \* each about to make one call on the engine
    lock,        \* engine.lock: whether it is held, and the tasks waiting
    issued,      \* number of calls issued as tasks so far
    served       \* the number (in order of issue) of the task whose call
                 \* returned last

vars == <<objs, bids, asks, orders, best_bid, best_ask, trade_count, last,
          ready, lock, issued, served>>

\* The variables of the event loop.
loop == <<ready, lock, issued, served>>

\* What a call starts from: the engine and the objects it can reach.
Engine ==
    [objs |-> objs, bids |-> bids, asks |-> asks, orders |-> orders,
     best_bid |-> best_bid, best_ask |-> best_ask,
     trade_count |-> trade_count, events |-> <<>>, raising |-> {},
     calls |-> <<>>, exc |-> NoExc, ret |-> None]

\* The book as the submitter can observe it.
Book(e) == [bids |-> e.bids, asks |-> e.asks, orders |-> e.orders]

\* The engine after a call.
Commit(r) ==
    /\ objs' = r.objs
    /\ bids' = r.bids
    /\ asks' = r.asks
    /\ orders' = r.orders
    /\ best_bid' = r.best_bid
    /\ best_ask' = r.best_ask
    /\ trade_count' = r.trade_count

\* MatchingEngine.__init__ and OrderBook.__init__.
Init ==
    /\ objs = <<>>
    /\ bids = NewSortedDict
    /\ asks = NewSortedDict
    /\ orders = EmptyMap
    /\ best_bid = None
    /\ best_ask = None
    /\ trade_count = 0
    /\ last = [op |-> "init", h |-> 0, order_id |-> 0, exc |-> NoExc,
               trades |-> <<>>, removed |-> None, events |-> <<>>,
               calls |-> <<>>, objs |-> <<>>,
               book |-> [bids |-> NewSortedDict, asks |-> NewSortedDict,
                         orders |-> EmptyMap]]
    /\ ready = <<>>
    /\ lock = NewLock
    /\ issued = 0
    /\ served = 0

\* The orders a submitter hands to process_order: any order the Order
\* constructor accepts.  A stop_price on a non-stop order and a price on a
\* MARKET order are never read by the engine and are left out.  The
\* order_id is a fresh one (the handle) or, as the constructor allows, one
\* chosen by the submitter that is already in the book.
Submittable(ty, qty, px, stop) ==
    /\ Constructible(ty, qty, px, stop)
    /\ (ty \notin StopTypes => stop = None)
    /\ (ty = MARKET => px = None)

\* MatchingEngine.process_order(order) on a newly created order.
ProcessOrder ==
    /\ Len(objs) < MaxOrders
    /\ \E ty \in OrderType, sd \in OrderSide, qty \in Quantities,
          px \in Prices \cup {None}, stop \in Prices \cup {None},
          id \in {Len(objs) + 1} \cup DOMAIN orders :
         /\ Submittable(ty, qty, px, stop)
         /\ \E e \in {[Engine EXCEPT
                          !.objs = Append(@, NewOrder(id, ty, sd, qty, px, stop))]} :
              \E r \in {_process_order_internal(e, Len(e.objs))} :
                /\ Commit(r)
                /\ last' = [op |-> "process_order", h |-> Len(e.objs),
                            order_id |-> id, exc |-> r.exc, trades |-> r.ret,
                            removed |-> None, events |-> r.events,
                            calls |-> r.calls, objs |-> e.objs,
                            book |-> Book(e)]
                /\ UNCHANGED loop

\* MatchingEngine.cancel_order(order_id), for the id of any order created so
\* far; it does not take the engine lock and emits nothing.
CancelOrder ==
    \E id \in 1..Len(objs) :
        \E e \in {Engine} :
          \E r \in {cancel_order(e, id)} :
            /\ Commit(r)
            /\ last' = [op |-> "cancel_order", h |-> 0, order_id |-> id,
                        exc |-> r.exc, trades |-> <<>>,
                        removed |-> IF r.exc = NoExc THEN r.ret ELSE None,
                        events |-> r.events, calls |-> r.calls,
                        objs |-> e.objs, book |-> Book(e)]
            /\ UNCHANGED loop

Next == ProcessOrder \/ CancelOrder

Spec == Init /\ [][Next]_vars

\* Order is a plain dataclass: after construction any field can be assigned,
\* so process_order can be handed an Order that Order._validate would no
\* longer accept (quantity 0, a LIMIT whose price was set to None, a stop
\* whose stop_price was set to None).  _validate_order is the engine's guard
\* against those; this action hands it any such object as well as the
\* constructible ones.
ProcessAnyOrder ==
    /\ Len(objs) < MaxOrders
    /\ \E ty \in OrderType, sd \in OrderSide, qty \in 0..MaxQty,
          px \in Prices \cup {None}, stop \in Prices \cup {None},
          id \in {Len(objs) + 1} \cup DOMAIN orders :
         /\ ty = MARKET => px = None
         /\ ty \notin StopTypes => stop = None
         /\ \E e \in {[Engine EXCEPT
                          !.objs = Append(@, NewOrder(id, ty, sd, qty, px, stop))]} :
              \E r \in {_process_order_internal(e, Len(e.objs))} :
                /\ Commit(r)
                /\ last' = [op |-> "process_order", h |-> Len(e.objs),
                            order_id |-> id, exc |-> r.exc, trades |-> r.ret,
                            removed |-> None, events |-> r.events,
                            calls |-> r.calls, objs |-> e.objs,
                            book |-> Book(e)]
                /\ UNCHANGED loop

NextAnyOrder == ProcessAnyOrder \/ CancelOrder

SpecAnyOrder == Init /\ [][NextAnyOrder]_vars

\* process_order while callbacks of the bus may raise: any of the
\* subscribers, chosen anew for each call, raises an Exception whenever it is
\* called during the call.
ProcessOrderRaisingSinks ==
    /\ Len(objs) < MaxOrders
    /\ \E ty \in OrderType, sd \in OrderSide, qty \in Quantities,
          px \in Prices \cup {None}, stop \in Prices \cup {None},
          id \in {Len(objs) + 1} \cup DOMAIN orders,
          rs \in SUBSET (1..NumSubscribers) :
         /\ Submittable(ty, qty, px, stop)
         /\ \E e \in {[Engine EXCEPT
                          !.objs = Append(@, NewOrder(id, ty, sd, qty, px, stop)),
                          !.raising = rs]} :
              \E r \in {_process_order_internal(e, Len(e.objs))} :
                /\ Commit(r)
                /\ last' = [op |-> "process_order", h |-> Len(e.objs),
                            order_id |-> id, exc |-> r.exc, trades |-> r.ret,
                            removed |-> None, events |-> r.events,
                            calls |-> r.calls, objs |-> e.objs,
                            book |-> Book(e)]
                /\ UNCHANGED loop

NextRaisingSinks == ProcessOrderRaisingSinks \/ CancelOrder

SpecRaisingSinks == Init /\ [][NextRaisingSinks]_vars
\* ------------------------------------------------------------ persistence
\* str(Decimal) of a whole, non-negative decimal: its digits, the most
\* significant first.
RECURSIVE DecimalStr(_)
DecimalStr(n) ==
    IF n < 10 THEN <<n>> ELSE Append(DecimalStr(n \div 10), n % 10)

\* Decimal(str) of such a string of digits.
RECURSIVE DecimalOf(_)
DecimalOf(s) ==
    IF Len(s) = 1 THEN s[1]
    ELSE 10 * DecimalOf(SubSeq(s, 1, Len(s) - 1)) + s[Len(s)]

\* None among the strings of a dict written to the state file (null).
Null == <<>>

\* Order.to_dict: every Decimal field becomes its string, None stays None,
\* the enum fields become their values (by which the model names them).
Order_to_dict(o) ==
    [order_id |-> o.order_id, order_type |-> o.order_type, side |-> o.side,
     status |-> o.status,
     quantity |-> DecimalStr(o.quantity),
     price |-> IF o.price = None THEN Null ELSE DecimalStr(o.price),
     stop_price |-> IF o.stop_price = None THEN Null ELSE DecimalStr(o.stop_price),
     filled_quantity |-> DecimalStr(o.filled_quantity),
     remaining_quantity |-> DecimalStr(o.remaining_quantity)]

\* Order.from_dict: the strings are parsed, the Order is built with every
\* field of the dict as given (status, filled_quantity and
\* remaining_quantity included), and __post_init__ validates it.
Order_from_dict(data) ==
    LET o == [order_id |-> data.order_id, order_type |-> data.order_type,
              side |-> data.side, status |-> data.status,
              quantity |-> DecimalOf(data.quantity),
              price |-> IF data.price = Null THEN None ELSE DecimalOf(data.price),
              stop_price |-> IF data.stop_price = Null THEN None
                             ELSE DecimalOf(data.stop_price),
              filled_quantity |-> DecimalOf(data.filled_quantity),
              remaining_quantity |-> DecimalOf(data.remaining_quantity)]
    IN [order |-> o,
        exc |-> IF Constructible(o.order_type, o.quantity, o.price, o.stop_price)
                THEN NoExc ELSE "ValueError"]

\* The handles of the orders the id map holds, in the order in which the
\* dict iterates: the order of insertion, which is the order of the handles,
\* an order being inserted by the call it was created for.
IdMapValues(e) ==
    SelectSeq([h \in 1..Len(e.objs) |-> h],
              LAMBDA h : \E id \in DOMAIN e.orders : e.orders[id] = h)

\* A save_state that writes every order of the id map, whatever its status
\* (the test of line 39 left out): the variant C29 is tested against.
save_state_any_status(e) ==
    [k \in 1..Len(IdMapValues(e)) |-> Order_to_dict(e.objs[IdMapValues(e)[k]])]
\* PersistenceManager.save_state for the one symbol: the list "orders" of
\* the state file, the to_dict of every order of the id map that is OPEN or
\* PARTIALLY_FILLED.
save_state(e) ==
    LET saved == SelectSeq(IdMapValues(e),
                           LAMBDA h : e.objs[h].status \in {OPEN, PARTIALLY_FILLED})
    IN [k \in 1..Len(saved) |-> Order_to_dict(e.objs[saved[k]])]

\* OrderBook(symbol) in a new MatchingEngine.  The Order objects made so
\* far stay where they are in objs, though nothing of the new engine refers
\* to them.
NewEngine(os) ==
    [objs |-> os, bids |-> NewSortedDict, asks |-> NewSortedDict,
     orders |-> EmptyMap, best_bid |-> None, best_ask |-> None,
     trade_count |-> 0, events |-> <<>>, raising |-> {}, calls |-> <<>>,
     exc |-> NoExc, ret |-> None]

\* The loop of restore_order_book: from_dict and add_order for every saved
\* order; an exception of either is logged and the loop goes on.  The Order
\* built from a dict takes, in objs, the place h of the object it was saved
\* from.
restore_added(r) == [r EXCEPT !.exc = NoExc, !.ret = None]

restore_one(e, fd, h) ==
    IF fd.exc # NoExc THEN e
    ELSE restore_added(add_order([e EXCEPT !.objs[h] = fd.order], h))

RECURSIVE restore_orders(_, _, _, _)
restore_orders(e, saved, k, old) ==
    IF k > Len(saved) THEN e
    ELSE restore_orders(restore_one(e, Order_from_dict(saved[k]),
                                    old[saved[k].order_id]),
                        saved, k + 1, old)

\* PersistenceManager.restore_order_book of the saved orders; old is the id
\* map of the book they were saved from.
restore_order_book(saved, os, old) == restore_orders(NewEngine(os), saved, 1, old)

\* The server is shut down and started again: _save_state writes the book,
\* _initialize_engines builds a new engine around the restored book.
Restart ==
    /\ last.op # "restore"
    /\ \E e \in {Engine} :
         \E r \in {restore_order_book(save_state(e), e.objs, e.orders)} :
           /\ Commit(r)
           /\ last' = [op |-> "restore", h |-> 0, order_id |-> 0,
                       exc |-> NoExc, trades |-> <<>>, removed |-> None,
                       events |-> <<>>, calls |-> <<>>, objs |-> e.objs,
                       book |-> Book(e)]
           /\ UNCHANGED loop

\* Orders submitted in one behaviour that ends in a restart, and the largest
\* quantity and price of such an order.
MaxRestartOrders == 3
MaxRestartQty == 1
MaxRestartPrice == 1

\* MatchingEngine.process_order(order) on a newly created order, as
\* ProcessOrder, for the behaviours with a restart.
ProcessOrderBeforeRestart ==
    /\ Len(objs) < MaxRestartOrders
    /\ \E ty \in OrderType, sd \in OrderSide, qty \in 1..MaxRestartQty,
          px \in (1..MaxRestartPrice) \cup {None},
          stop \in (1..MaxRestartPrice) \cup {None},
          id \in {Len(objs) + 1} \cup DOMAIN orders :
         /\ Submittable(ty, qty, px, stop)
         /\ \E e \in {[Engine EXCEPT
                          !.objs = Append(@, NewOrder(id, ty, sd, qty, px, stop))]} :
              \E r \in {_process_order_internal(e, Len(e.objs))} :
                /\ Commit(r)
                /\ last' = [op |-> "process_order", h |-> Len(e.objs),
                            order_id |-> id, exc |-> r.exc, trades |-> r.ret,
                            removed |-> None, events |-> r.events,
                            calls |-> r.calls, objs |-> e.objs,
                            book |-> Book(e)]
                /\ UNCHANGED loop

NextRestart == ProcessOrderBeforeRestart \/ CancelOrder \/ Restart

SpecRestart == Init /\ [][NextRestart]_vars
\* ------------------------------------------------------- concurrent calls
\* Calls issued concurrently: every call is made by a task of one asyncio
\* event loop (an API handler per request).  The loop runs the tasks of its
\* ready queue one at a time, in the order they became ready, each until it
\* suspends or ends.  A task suspends only where it awaits something that is
\* not done: _process_order_internal, _handle_stop_order and _match_order
\* are coroutines that await nothing but each other, EventBus.emit and
\* cancel_order are plain functions, so the only place a call can suspend is
\* lock.acquire on a held lock.
\* Calls that may be queued at one time, and calls issued in one behaviour.
MaxReady == 2
MaxCalls == 3

\* A task is created to call process_order on a newly built order.
IssueProcessOrder ==
    /\ Len(objs) < MaxOrders
    /\ Len(ready) < MaxReady
    /\ issued < MaxCalls
    /\ \E ty \in OrderType, sd \in OrderSide, qty \in Quantities,
          px \in Prices \cup {None}, stop \in Prices \cup {None},
          id \in {Len(objs) + 1} \cup DOMAIN orders :
         /\ Submittable(ty, qty, px, stop)
         /\ objs' = Append(objs, NewOrder(id, ty, sd, qty, px, stop))
         /\ ready' = Append(ready, [op |-> "process_order", h |-> Len(objs) + 1,
                                    order_id |-> id, ticket |-> issued + 1])
    /\ issued' = issued + 1
    /\ UNCHANGED <<bids, asks, orders, best_bid, best_ask, trade_count, last,
                   lock, served>>

\* A task is created to call cancel_order.
IssueCancelOrder ==
    /\ Len(ready) < MaxReady
    /\ issued < MaxCalls
    /\ \E id \in 1..Len(objs) :
         ready' = Append(ready, [op |-> "cancel_order", h |-> 0,
                                 order_id |-> id, ticket |-> issued + 1])
    /\ issued' = issued + 1
    /\ UNCHANGED <<objs, bids, asks, orders, best_bid, best_ask, trade_count,
                   last, lock, served>>

\* The task at the head of the ready queue runs MatchingEngine.process_order:
\* `async with self.lock` acquires the lock or suspends the task; with the
\* lock, _process_order_internal runs to its end and the lock is released,
\* whether the call returns or raises.
RunProcessOrder ==
    /\ ready # <<>>
    /\ Head(ready).op = "process_order"
    /\ \E t \in {Head(ready)} : \E a \in {lock_acquire(lock, t)} :
         IF ~a.acquired
         THEN /\ lock' = a.lock
              /\ ready' = Tail(ready)
              /\ UNCHANGED <<objs, bids, asks, orders, best_bid, best_ask,
                             trade_count, last, issued, served>>
         ELSE \E e \in {Engine} :
                \E r \in {_process_order_internal(e, t.h)} :
                  \E rl \in {lock_release(a.lock)} :
                    /\ Commit(r)
                    /\ last' = [op |-> "process_order", h |-> t.h,
                                order_id |-> t.order_id, exc |-> r.exc,
                                trades |-> r.ret, removed |-> None,
                                events |-> r.events, calls |-> r.calls,
                                objs |-> e.objs, book |-> Book(e)]
                    /\ lock' = rl.lock
                    /\ ready' = Tail(ready) \o rl.woken
                    /\ served' = t.ticket
                    /\ UNCHANGED issued

\* The task at the head of the ready queue runs MatchingEngine.cancel_order,
\* which takes no lock.
RunCancelOrder ==
    /\ ready # <<>>
    /\ Head(ready).op = "cancel_order"
    /\ \E t \in {Head(ready)} : \E e \in {Engine} :
         \E r \in {cancel_order(e, t.order_id)} :
           /\ Commit(r)
           /\ last' = [op |-> "cancel_order", h |-> 0, order_id |-> t.order_id,
                       exc |-> r.exc, trades |-> <<>>,
                       removed |-> IF r.exc = NoExc THEN r.ret ELSE None,
                       events |-> r.events, calls |-> r.calls,
                       objs |-> e.objs, book |-> Book(e)]
           /\ ready' = Tail(ready)
           /\ served' = t.ticket
           /\ UNCHANGED <<lock, issued>>

NextConcurrent ==
    IssueProcessOrder \/ IssueCancelOrder \/ RunProcessOrder \/ RunCancelOrder

SpecConcurrent == Init /\ [][NextConcurrent]_vars
\* ----------------------------------------------------------------- claims
\* What the claims below speak about.
Terminal == {FILLED, CANCELLED, REJECTED}
SideOf(book, sd) == IF sd = BUY THEN book.bids ELSE book.asks
Now == [bids |-> bids, asks |-> asks, orders |-> orders]

\* Sum of remaining_quantity over the orders queued in a level, the Order
\* objects being os.
LevelRemaining(os, lvl) ==
    SeqSum([i \in 1..Len(lvl.orders) |-> os[lvl.orders[i]].remaining_quantity])

\* The levels (side, price) in whose queue the order with handle h stands.
LevelsOf(book, h) ==
    {sp \in OrderSide \X (Prices \cup {None}) :
        /\ sp[2] \in DOMAIN SideOf(book, sp[1]).d
        /\ h \in Range(SideOf(book, sp[1]).d[sp[2]].orders)}

\* The quantity resting against order o at prices within its limit.
Available(os, book, o) ==
    LET s == SideOf(book, Opposite(o.side))
    IN SeqSum([i \in 1..Len(s.l) |->
                 IF /\ s.l[i] # None
                    /\ s.l[i] \in DOMAIN s.d
                    /\ IF o.side = BUY THEN s.l[i] <= o.price ELSE s.l[i] >= o.price
                 THEN LevelRemaining(os, s.d[s.l[i]])
                 ELSE 0])

TradeQuantities(trades) == [i \in 1..Len(trades) |-> trades[i].quantity]

\* C1 (non-crossing book).  After every return of process_order or
\* cancel_order, for orders of any of the seven types: when both sides of
\* the book hold a best price, the best bid is below the best ask.
C1_NonCrossing ==
    ( /\ get_best_bid(Engine).exc = NoExc
      /\ get_best_ask(Engine).exc = NoExc
      /\ get_best_bid(Engine).ret # None
      /\ get_best_ask(Engine).ret # None )
    => get_best_bid(Engine).ret < get_best_ask(Engine).ret

\* C3 (FOK full fill).  When process_order is given a FOK order and the
\* opposite side rests at least its quantity at prices within its limit,
\* the order ends FILLED and the returned trades sum to its quantity.
C3_FOKFullFill ==
    ( /\ last.op = "process_order"
      /\ last.objs[last.h].order_type = FOK
      /\ last.objs[last.h].price # None
      /\ Available(last.objs, last.book, last.objs[last.h])
            >= last.objs[last.h].quantity )
    => /\ objs[last.h].status = FILLED
       /\ SeqSum(TradeQuantities(last.trades)) = objs[last.h].quantity

C7_TerminalFinal ==
    \A h \in 1..Len(last.objs) :
        last.objs[h].status \in Terminal => objs[h].status = last.objs[h].status

\* C8 (id-map integrity).  After every return, every order of the id map is
\* OPEN or PARTIALLY_FILLED and is queued exactly once, in the level of its
\* own side and price and in no other; and every queued order is the one
\* the id map holds under its order_id.
C8_IdMapIntegrity ==
    /\ \A id \in DOMAIN orders :
         /\ objs[orders[id]].status \in {OPEN, PARTIALLY_FILLED}
         /\ LevelsOf(Now, orders[id])
               = {<<objs[orders[id]].side, objs[orders[id]].price>>}
         /\ \A sp \in LevelsOf(Now, orders[id]) :
              Cardinality({i \in DOMAIN SideOf(Now, sp[1]).d[sp[2]].orders :
                             SideOf(Now, sp[1]).d[sp[2]].orders[i] = orders[id]}) = 1
    /\ \A h \in 1..Len(objs) :
         LevelsOf(Now, h) # {} =>
             /\ objs[h].order_id \in DOMAIN orders
             /\ orders[objs[h].order_id] = h

TradeGain(h) ==
    SeqSum([i \in 1..Len(last.events) |->
              IF last.events[i].type # "trade" THEN 0
              ELSE (IF h = last.h THEN last.events[i].quantity ELSE 0)
                 + (IF /\ last.events[i].maker_order_id \in DOMAIN last.book.orders
                       /\ last.book.orders[last.events[i].maker_order_id] = h
                    THEN last.events[i].quantity ELSE 0)])

NoTradeIsMade ==
    /\ trade_count = 0
    /\ last.trades = <<>>
    /\ \A i \in 1..Len(last.events) : last.events[i].type # "trade"
    /\ \A h \in 1..Len(objs) : objs[h].filled_quantity = 0

FOKNeverCancelled ==
    (last.op = "process_order" /\ last.objs[last.h].order_type = FOK)
        => objs[last.h].status \in {PENDING, REJECTED}

\* The order types that must never rest.
NonResting == {MARKET, IOC, FOK}

\* C11 (non-resting types).  After any sequence of calls, no order whose
\* type is MARKET, IOC or FOK is queued in a price level or held by the id
\* map, whatever remainder it has.
C11_NonRestingTypes ==
    \A h \in 1..Len(objs) :
        objs[h].order_type \in NonResting =>
            /\ LevelsOf(Now, h) = {}
            /\ \A id \in DOMAIN orders : orders[id] # h

\* C11 witness: process_order has returned normally from a MARKET, IOC or
\* FOK order that still has a remainder.
C11_RemainderLeft ==
    /\ last.op = "process_order"
    /\ last.exc = NoExc
    /\ objs[last.h].order_type \in NonResting
    /\ objs[last.h].remaining_quantity > 0
    /\ orders # EmptyMap

\* C12 (IOC fills what is immediately available).  When process_order has
\* been given an IOC order with a limit price, the order's filled_quantity
\* is the smaller of its quantity and the quantity that rested against it
\* at prices within its limit when it was submitted.
C12_IOCFillsAvailable ==
    ( /\ last.op = "process_order"
      /\ last.objs[last.h].order_type = IOC
      /\ last.objs[last.h].price # None )
    => objs[last.h].filled_quantity
          = Min(last.objs[last.h].quantity,
                Available(last.objs, last.book, last.objs[last.h]))

\* C13 (IOC final status).  When process_order returns from an IOC order,
\* the order is CANCELLED if it has a remainder and FILLED if it has none.
C13_IOCFinalStatus ==
    ( /\ last.op = "process_order"
      /\ last.exc = NoExc
      /\ last.objs[last.h].order_type = IOC )
    => objs[last.h].status
          = IF objs[last.h].remaining_quantity > 0 THEN CANCELLED ELSE FILLED

\* C14 (MARKET remainder status).  When process_order has been given a
\* MARKET order and the order is left with a remainder, its status is
\* PARTIALLY_FILLED if anything filled and REJECTED if nothing did.
C14_MarketRemainderStatus ==
    ( /\ last.op = "process_order"
      /\ last.objs[last.h].order_type = MARKET
      /\ objs[last.h].remaining_quantity > 0 )
    => objs[last.h].status
          = IF objs[last.h].filled_quantity > 0 THEN PARTIALLY_FILLED ELSE REJECTED

\* A book whose two sides each list exactly the keys they hold, every key a
\* price.
Priced(book) ==
    \A sd \in OrderSide :
        /\ None \notin DOMAIN SideOf(book, sd).d
        /\ Range(SideOf(book, sd).l) = DOMAIN SideOf(book, sd).d

\* C15 (LIMIT processing).  process_order on a LIMIT order with an unused id,
\* on a book whose levels all have a price: the order fills the smaller of
\* its quantity and the quantity resting against it within its limit; fully
\* filled it is FILLED and not in the book; otherwise it rests once, in the
\* level of its own side and price, held by the id map, with status OPEN
\* when nothing filled.
C15_LimitProcessing ==
    ( /\ last.op = "process_order"
      /\ last.objs[last.h].order_type = LIMIT
      /\ last.order_id \notin DOMAIN last.book.orders
      /\ Priced(last.book) )
    => /\ objs[last.h].filled_quantity
             = Min(last.objs[last.h].quantity,
                   Available(last.objs, last.book, last.objs[last.h]))
       /\ objs[last.h].remaining_quantity = 0 =>
             /\ objs[last.h].status = FILLED
             /\ LevelsOf(Now, last.h) = {}
             /\ last.order_id \notin DOMAIN orders
       /\ objs[last.h].remaining_quantity > 0 =>
             /\ LevelsOf(Now, last.h)
                   = {<<objs[last.h].side, objs[last.h].price>>}
             /\ last.order_id \in DOMAIN orders
             /\ orders[last.order_id] = last.h
             /\ objs[last.h].filled_quantity = 0 => objs[last.h].status = OPEN

\* The order that cancel_order was asked for was resting when the call
\* began: held by the id map, OPEN or PARTIALLY_FILLED, queued in a level.
CancelledWasResting ==
    /\ last.op = "cancel_order"
    /\ last.order_id \in DOMAIN last.book.orders
    /\ last.objs[last.book.orders[last.order_id]].status \in {OPEN, PARTIALLY_FILLED}
    /\ LevelsOf(last.book, last.book.orders[last.order_id]) # {}

\* What C16 asks of a cancel_order call on a resting order: it returns the
\* order, now CANCELLED; the order is in no level and its id in no map; no
\* level is left empty; every other order and every other level is as it
\* was.
CancelRemoves ==
    LET h == last.book.orders[last.order_id]
    IN /\ last.exc = NoExc
       /\ last.removed = h
       /\ objs[h].status = CANCELLED
       /\ LevelsOf(Now, h) = {}
       /\ orders = Del(last.book.orders, last.order_id)
       /\ \A g \in 1..Len(objs) : g # h => objs[g] = last.objs[g]
       /\ \A sd \in OrderSide :
            /\ \A p \in DOMAIN SideOf(Now, sd).d : SideOf(Now, sd).d[p].orders # <<>>
            /\ \A p \in DOMAIN SideOf(last.book, sd).d :
                 h \notin Range(SideOf(last.book, sd).d[p].orders) =>
                     /\ p \in DOMAIN SideOf(Now, sd).d
                     /\ SideOf(Now, sd).d[p] = SideOf(last.book, sd).d[p]

\* What C16 asks of a cancel_order call on an id the book does not hold: it
\* returns nothing and changes nothing.
CancelOfAbsent ==
    ( /\ last.op = "cancel_order"
      /\ last.order_id \notin DOMAIN last.book.orders )
    => /\ last.exc = NoExc
       /\ last.removed = None
       /\ objs = last.objs
       /\ Now = last.book

\* C16 (cancel-then-lookup).  cancel_order on a resting order returns it
\* CANCELLED, takes it out of its level and of the id map, drops an emptied
\* level and leaves every other resting order as it was; cancel_order on an
\* id that is not in the book, as it is right after, returns nothing and
\* changes nothing.
C16_CancelThenLookup ==
    /\ CancelledWasResting => CancelRemoves
    /\ CancelOfAbsent

\* The same for resting orders of a book whose levels all have a price.
CancelOfPriced ==
    /\ (CancelledWasResting /\ Priced(last.book)) => CancelRemoves
    /\ CancelOfAbsent

\* The orders C17 speaks of.
Invalid(o) ==
    \/ o.quantity <= 0
    \/ o.order_type \in {LIMIT, STOP_LIMIT} /\ o.price = None
    \/ o.order_type \in StopTypes /\ o.stop_price = None

\* C17 (validation failure).  process_order on an order with quantity <= 0,
\* a LIMIT or STOP_LIMIT without price, or a stop variant without
\* stop_price raises an error and leaves the order REJECTED; it returns no
\* trade, emits no event, and the book, the engine's counters and every
\* other order are as they were.
C17_ValidationFailure ==
    ( /\ last.op = "process_order"
      /\ Invalid(last.objs[last.h]) )
    => /\ last.exc = "ValueError"
       /\ objs[last.h] = [last.objs[last.h] EXCEPT !.status = REJECTED]
       /\ last.trades = <<>>
       /\ last.events = <<>>
       /\ Now = last.book
       /\ \A g \in 1..Len(objs) : g # last.h => objs[g] = last.objs[g]

\* C17 witness: an order with quantity 0 has been rejected while another
\* order rests in the book.
C17_InvalidRejected ==
    /\ last.op = "process_order"
    /\ last.objs[last.h].quantity = 0
    /\ last.exc = "ValueError"
    /\ objs[last.h].status = REJECTED
    /\ orders # EmptyMap

\* C18 (duplicate order id).  process_order on an order whose order_id is
\* held by the book's id map raises an error to the submitter, returns no
\* trade, and leaves the book and every resting order as they were.
C18_DuplicateOrderId ==
    ( /\ last.op = "process_order"
      /\ last.order_id \in DOMAIN last.book.orders )
    => /\ last.exc # NoExc
       /\ last.trades = <<>>
       /\ Now = last.book
       /\ \A g \in 1..Len(objs) : g # last.h => objs[g] = last.objs[g]

\* What the code does keep for a duplicate id: no trade, and the book and
\* every other order as they were.
DuplicateChangesNothing ==
    ( /\ last.op = "process_order"
      /\ last.order_id \in DOMAIN last.book.orders )
    => /\ last.trades = <<>>
       /\ Now = last.book
       /\ \A g \in 1..Len(objs) : g # last.h => objs[g] = last.objs[g]

\* The event ev is a BBO_UPDATE that shows the book as it is now: best
\* prices, the quantities at them, and the depth of both sides.
BBOReflectsNow(ev) ==
    /\ ev.type = "bbo_update"
    /\ _emit_bbo_update(Engine).exc = NoExc
    /\ ev = _emit_bbo_update(Engine).events[1]

\* C19 (BBO publication).  A process_order or cancel_order call that has
\* returned and has changed the book (levels or id map) has emitted events,
\* and the last of them is a BBO_UPDATE that shows the book as the call
\* left it.
C19_BBOPublication ==
    ( /\ last.op \in {"process_order", "cancel_order"}
      /\ last.exc = NoExc
      /\ Now # last.book )
    => /\ last.events # <<>>
       /\ BBOReflectsNow(last.events[Len(last.events)])

\* What the code does publish: a LIMIT order that process_order accepted is
\* followed by a BBO_UPDATE showing the book as the call left it.
LimitPublishesBBO ==
    ( /\ last.op = "process_order"
      /\ last.exc = NoExc
      /\ last.objs[last.h].order_type = LIMIT )
    => /\ last.events # <<>>
       /\ BBOReflectsNow(last.events[Len(last.events)])

\* The events of one process_order call, as far as the code's statement
\* order fixes them: every TRADE event comes before the BBO_UPDATE, of which
\* there is at most one, and the TRADE events carry the returned trades in
\* their order unless the call raised or killed a FOK order.
EventOrderInCall ==
    last.op = "process_order" =>
        /\ \A i \in 1..Len(last.events) :
             last.events[i].type = "bbo_update" => i = Len(last.events)
        /\ (last.exc = NoExc /\ objs[last.h].status # CANCELLED) =>
             SelectSeq(last.events, LAMBDA ev : ev.type = "trade") = last.trades


\* What a call leaves behind when it runs alone on the objects and the book
\* that the last call started from.
AloneFrom(bk, os) ==
    [objs |-> os, bids |-> bk.bids, asks |-> bk.asks, orders |-> bk.orders,
     best_bid |-> None, best_ask |-> None, trade_count |-> 0,
     events |-> <<>>, raising |-> {}, calls |-> <<>>, exc |-> NoExc,
     ret |-> None]

RanAlone(r) ==
    /\ Now = Book(r)
    /\ SubSeq(objs, 1, Len(last.objs)) = r.objs
    /\ last.exc = r.exc
    /\ last.events = r.events

BestBidOf(book) == SortedDict_best(book.bids).ret
BestAskOf(book) == SortedDict_best(book.asks).ret

\* The last call was process_order on a stop-variant order with an unused
\* id, on a book whose levels all have a price.
StopEntered ==
    /\ last.op = "process_order"
    /\ last.objs[last.h].order_type \in StopTypes
    /\ last.order_id \notin DOMAIN last.book.orders
    /\ Priced(last.book)

\* The stop order of the last call met its trigger when it entered.
TriggeredOnEntry ==
    IF last.objs[last.h].side = BUY
    THEN /\ BestAskOf(last.book) # None
         /\ BestAskOf(last.book) <= last.objs[last.h].stop_price
    ELSE /\ BestBidOf(last.book) # None
         /\ BestBidOf(last.book) >= last.objs[last.h].stop_price

\* A triggered STOP_LOSS is now MARKET without price, a triggered
\* STOP_LIMIT or TAKE_PROFIT is now LIMIT.
StopConverted ==
    /\ last.objs[last.h].order_type = STOP_LOSS =>
         /\ objs[last.h].order_type = MARKET
         /\ objs[last.h].price = None
    /\ last.objs[last.h].order_type \in {STOP_LIMIT, TAKE_PROFIT} =>
         /\ objs[last.h].order_type = LIMIT
         /\ objs[last.h].price = last.objs[last.h].price

\* An untriggered stop order keeps its type, makes no trade and rests: it
\* is queued in the level of its side and price and held by the id map.
StopRested ==
    /\ objs[last.h].order_type = last.objs[last.h].order_type
    /\ last.trades = <<>>
    /\ \A i \in 1..Len(last.events) : last.events[i].type # "trade"
    /\ LevelsOf(Now, last.h) = {<<objs[last.h].side, objs[last.h].price>>}
    /\ last.order_id \in DOMAIN orders
    /\ orders[last.order_id] = last.h

\* C22 (stop trigger evaluation).  process_order on a stop-variant order: a
\* BUY stop triggers iff there is a best ask and it is <= stop_price, a SELL
\* stop iff there is a best bid and it is >= stop_price; a triggered
\* STOP_LOSS becomes MARKET without price and a triggered STOP_LIMIT or
\* TAKE_PROFIT becomes LIMIT; an untriggered one keeps its type, makes no
\* trade and is rested in the book.
C22_StopTrigger ==
    StopEntered => IF TriggeredOnEntry THEN StopConverted ELSE StopRested

\* The part of C22 the code meets: the trigger test and the conversion, and
\* the resting of an untriggered stop order that carries a price.
StopWithPriceRests ==
    StopEntered =>
        IF TriggeredOnEntry THEN StopConverted
        ELSE last.objs[last.h].price # None => StopRested


\* The converted order of the last call submitted directly, from the book and
\* the objects the last call started from.
FreshConverted ==
    _process_order_internal(
        [AloneFrom(last.book, last.objs) EXCEPT
            !.objs[last.h] = stop_converted(last.objs[last.h])],
        last.h)

\* C23 (triggered stop equals fresh submission).  A stop order that triggers
\* on entry leaves the book, returns the trades and emits the events that
\* process_order on the converted order does; and a triggered STOP_LIMIT or
\* TAKE_PROFIT that has a remainder when the call is over rests as a LIMIT
\* order, with a BBO_UPDATE as the last event.
C23_TriggeredStopAsFresh ==
    (StopEntered /\ TriggeredOnEntry) =>
        /\ Now = Book(FreshConverted)
        /\ last.trades = FreshConverted.ret
        /\ last.events = FreshConverted.events
        /\ ( /\ last.objs[last.h].order_type \in {STOP_LIMIT, TAKE_PROFIT}
             /\ last.objs[last.h].price # None
             /\ objs[last.h].remaining_quantity > 0 ) =>
               /\ objs[last.h].order_type = LIMIT
               /\ LevelsOf(Now, last.h) = {<<objs[last.h].side, objs[last.h].price>>}
               /\ last.events # <<>>
               /\ last.events[Len(last.events)].type = "bbo_update"

\* The part of C23 the code meets: a triggered stop order ends as the
\* converted order submitted directly does, with the same book, the same
\* (empty) list of trades and the same (no) events.
TriggeredEndsAsFresh ==
    (StopEntered /\ TriggeredOnEntry) =>
        /\ Now = Book(FreshConverted)
        /\ last.trades = FreshConverted.ret
        /\ last.events = FreshConverted.events


\* The remaining quantity that the orders of a level other than stop orders
\* hold.
LiveRemaining(os, lvl) ==
    SeqSum([i \in 1..Len(lvl.orders) |->
              IF os[lvl.orders[i]].order_type \in StopTypes THEN 0
              ELSE os[lvl.orders[i]].remaining_quantity])

\* The best price and the depth of a side are those of its orders other
\* than stop orders: every quoted level holds such an order, and its quoted
\* quantity is theirs.
QuotesNoStop(s) ==
    /\ SortedDict_best(s).exc = NoExc
    /\ side_depth(s, 10).exc = NoExc
    /\ SortedDict_best(s).ret # None =>
         /\ SortedDict_best(s).ret \in DOMAIN s.d
         /\ LiveRemaining(objs, s.d[SortedDict_best(s).ret]) > 0
    /\ \A i \in 1..Len(side_depth(s, 10).ret) :
         /\ side_depth(s, 10).ret[i][1] \in DOMAIN s.d
         /\ side_depth(s, 10).ret[i][2]
               = LiveRemaining(objs, s.d[side_depth(s, 10).ret[i][1]])
         /\ side_depth(s, 10).ret[i][2] > 0

\* C24 (stop latency).  An order whose type is STOP_LOSS, STOP_LIMIT or
\* TAKE_PROFIT has received no fill and is the maker of no trade of the
\* last call, and the best bid, the best ask and the quoted depth of a
\* book whose levels all have a price are made of the other orders only.
C24_StopLatency ==
    /\ \A h \in 1..Len(objs) :
         objs[h].order_type \in StopTypes =>
             /\ objs[h].filled_quantity = 0
             /\ \A i \in 1..Len(last.events) :
                  last.events[i].type = "trade" =>
                      last.events[i].maker_order_id # objs[h].order_id
    /\ Priced(Now) => (QuotesNoStop(bids) /\ QuotesNoStop(asks))


\* No stop order is ever quoted.  (Violated: see C24.)
StopNeverQueued ==
    \A h \in 1..Len(objs) :
        objs[h].order_type \in StopTypes => LevelsOf(Now, h) = {}

\* A book without stop orders in its levels meets the quote part of C24.
QuotesWithoutStops ==
    (Priced(Now) /\ StopNeverQueued) => (QuotesNoStop(bids) /\ QuotesNoStop(asks))


\* The order with handle h was a resting stop order when the last call began
\* and its trigger condition, false on the best prices then, is true on the
\* best prices now.
TriggerBecameTrue(h) ==
    /\ last.objs[h].order_type \in StopTypes
    /\ LevelsOf(last.book, h) # {}
    /\ SortedDict_best(last.book.bids).exc = NoExc
    /\ SortedDict_best(last.book.asks).exc = NoExc
    /\ get_best_bid(Engine).exc = NoExc
    /\ get_best_ask(Engine).exc = NoExc
    /\ ~trigger_condition(last.objs[h], BestBidOf(last.book), BestAskOf(last.book))
    /\ trigger_condition(last.objs[h], get_best_bid(Engine).ret,
                         get_best_ask(Engine).ret)

\* C25 (stop re-evaluation).  When a process_order call has returned and the
\* best prices it leaves meet the trigger condition of a stop order that was
\* resting untriggered when the call began, that order has been triggered:
\* it is no longer a stop order and no longer waits in the book with its
\* whole quantity.
C25_StopReevaluation ==
    (last.op = "process_order" /\ last.exc = NoExc) =>
        \A h \in 1..Len(last.objs) :
            (h # last.h /\ TriggerBecameTrue(h)) =>
                /\ objs[h].order_type \notin StopTypes
                /\ \/ LevelsOf(Now, h) = {}
                   \/ objs[h].filled_quantity > 0
                   \/ objs[h].order_type = LIMIT

\* What the code does with resting stop orders: no call ever changes the
\* type of an order other than the one it was given.
RestingTypeKept ==
    \A h \in 1..Len(last.objs) :
        h # last.h => objs[h].order_type = last.objs[h].order_type


\* The callback invocations that the events evs make when every subscriber
\* is called with every event, event by event and subscriber by subscriber.
AllCalled(evs) ==
    [k \in 1..(Len(evs) * NumSubscribers) |->
        <<((k - 1) % NumSubscribers) + 1, evs[((k - 1) \div NumSubscribers) + 1]>>]

\* What the last call does from where it started when no callback raises.
QuietCall == _process_order_internal(AloneFrom(last.book, last.objs), last.h)

\* C26 (event-sink isolation).  Whatever callbacks raise while process_order
\* emits a TRADE or BBO_UPDATE event, the call raises or returns, returns
\* the trades, emits the events and leaves the orders and the book as it
\* does when no callback raises, and every subscriber has been called with
\* every event, those after a raising one included.
C26_SinkIsolation ==
    last.op = "process_order" =>
        /\ last.exc = QuietCall.exc
        /\ last.trades = QuietCall.ret
        /\ last.events = QuietCall.events
        /\ objs = QuietCall.objs
        /\ Now = Book(QuietCall)
        /\ [k \in 1..Len(last.calls) |-> <<last.calls[k].sub, last.calls[k].ev>>]
              = AllCalled(last.events)

\* C26 witness: the first subscriber raised on a BBO_UPDATE, the second was
\* called with it all the same, and the call returned with the order
\* resting OPEN.
C26_RaisedAndWentOn ==
    /\ last.op = "process_order"
    /\ last.exc = NoExc
    /\ Len(last.calls) = NumSubscribers
    /\ last.calls[1].raised
    /\ last.calls[1].ev.type = "bbo_update"
    /\ last.calls[2].sub = 2
    /\ ~last.calls[2].raised
    /\ objs[last.h].status = OPEN
    /\ LevelsOf(Now, last.h) # {}


\* C27 (no empty levels).  After every process_order or cancel_order call,
\* every PriceLevel held by bids or asks has at least one order in its
\* queue.
C27_NoEmptyLevels ==
    \A sd \in OrderSide : \A p \in DOMAIN SideOf(Now, sd).d :
        SideOf(Now, sd).d[p].orders # <<>>

\* The part of C27 the code meets: a book whose levels all have a price has
\* no empty level, and cancel_order drops the level it empties.
NoEmptyLevelWhenPriced ==
    Priced(Now) => C27_NoEmptyLevels

\* cancel_order has taken the only order out of a level that has a price.
CancelEmptiedLevel ==
    /\ last.op = "cancel_order"
    /\ last.removed # None
    /\ last.objs[last.removed].price # None
    /\ last.objs[last.removed].price
          \notin DOMAIN SideOf(Now, last.objs[last.removed].side).d


\* C28 (status tracks fills).  After every process_order call, an order
\* queued in a level of the book is OPEN when nothing of it is filled and
\* PARTIALLY_FILLED when part of it is.
C28_StatusTracksFills ==
    last.op = "process_order" =>
        \A h \in 1..Len(objs) :
            LevelsOf(Now, h) # {} =>
                /\ objs[h].filled_quantity = 0 => objs[h].status = OPEN
                /\ ( /\ 0 < objs[h].filled_quantity
                     /\ objs[h].filled_quantity < objs[h].quantity )
                      => objs[h].status = PARTIALLY_FILLED


\* The part of C28 the code meets: in a book whose levels all have a price,
\* every queued order is OPEN with nothing filled.
QueuedOpenWhenPriced ==
    Priced(Now) =>
        \A h \in 1..Len(objs) :
            LevelsOf(Now, h) # {} =>
                objs[h].status = OPEN /\ objs[h].filled_quantity = 0


\* The orders queued in the levels of side s, level by level in queue order,
\* each with all its fields.
Queued(os, s) ==
    [p \in DOMAIN s.d |-> [i \in 1..Len(s.d[p].orders) |-> os[s.d[p].orders[i]]]]

\* The same for the orders that are OPEN or PARTIALLY_FILLED only, levels
\* without such an order left out.
QueuedLive(os, s) ==
    LET q == [p \in DOMAIN s.d |->
                 SelectSeq(Queued(os, s)[p],
                           LAMBDA o : o.status \in {OPEN, PARTIALLY_FILLED})]
    IN [p \in {x \in DOMAIN s.d : q[x] # <<>>} |-> q[p]]

\* C29 (persistence round trip).  After the book was saved and restored, the
\* levels of both sides hold exactly the orders that were queued with status
\* OPEN or PARTIALLY_FILLED, each in the level of its side and price, in the
\* same queue order, with quantity, remaining_quantity, filled_quantity and
\* status as they were; the id map holds exactly these orders; no other
\* order is in the book.
C29_PersistenceRoundTrip ==
    last.op = "restore" =>
        /\ \A sd \in OrderSide :
             Queued(objs, SideOf(Now, sd))
                = QueuedLive(last.objs, SideOf(last.book, sd))
        /\ \A id \in DOMAIN orders :
             /\ objs[orders[id]].order_id = id
             /\ LevelsOf(Now, orders[id])
                   = {<<objs[orders[id]].side, objs[orders[id]].price>>}
        /\ \A h \in 1..Len(objs) :
             LevelsOf(Now, h) # {} => objs[h].order_id \in DOMAIN orders
                                        /\ orders[objs[h].order_id] = h

\* The part of C29 the code meets: a book whose levels all have a price comes
\* back from the round trip as C29 says.
RoundTripOfPriced ==
    Priced(last.book) => C29_PersistenceRoundTrip

\* A state of the round trip: a book with an OPEN order queued and a REJECTED
\* order in its id map has been saved and restored; the first is back in its
\* level, the second is not in the book.
C29_RestoredOpenOnly ==
    /\ last.op = "restore"
    /\ orders # EmptyMap
    /\ \E id \in DOMAIN last.book.orders :
         /\ last.objs[last.book.orders[id]].status = REJECTED
         /\ id \notin DOMAIN orders
    /\ \E id \in DOMAIN orders :
         /\ last.objs[orders[id]].status = OPEN
         /\ objs[orders[id]].status = OPEN
         /\ LevelsOf(Now, orders[id]) # {}

\* A second state of the round trip: two orders of one level are back in
\* their queue order.
RestoredTwoInLevel ==
    /\ last.op = "restore"
    /\ \E sd \in OrderSide : \E p \in DOMAIN SideOf(Now, sd).d :
         Len(SideOf(Now, sd).d[p].orders) = 2

\* The trades a call returns against the trades it emits: after a
\* process_order call on a fresh order that returns, the trades returned are
\* the TRADE events emitted during the call, in their order; their quantities
\* add up to the filled_quantity of the order; trade_count has grown by their
\* number.  No call of the code makes a trade (NoTradeIsMade), so all three
\* are facts about empty lists here.
ReturnedTradesMatch ==
    [][ ( /\ last'.op = "process_order"
          /\ last' # last
          /\ last'.order_id = last'.h
          /\ last'.exc = NoExc )
        => /\ SelectSeq(last'.events, LAMBDA ev : ev.type = "trade")
                = last'.trades
           /\ SeqSum([i \in 1..Len(last'.trades) |-> last'.trades[i].quantity])
                = objs'[last'.h].filled_quantity
           /\ trade_count' = trade_count + Len(last'.trades) ]_vars

\* Such a call: a fresh order is accepted and returns its (empty) list of
\* trades.
FreshOrderReturned ==
    /\ last.op = "process_order"
    /\ last.order_id = last.h
    /\ last.exc = NoExc
    /\ last.trades = <<>>
    /\ objs[last.h].status = OPEN

\* C31 (failure leaves the book unchanged).  Whenever process_order raises,
\* for whatever reason, the order ends REJECTED, the price levels of both
\* sides and the id map are what they were before the call, and no order of
\* the id map is outside every price level.
C31_FailureLeavesBook ==
    (last.op = "process_order" /\ last.exc # NoExc) =>
        /\ objs[last.h].status = REJECTED
        /\ Now = last.book
        /\ \A id \in DOMAIN orders : LevelsOf(Now, orders[id]) # {}

\* The part of C31 the code meets: a call that raises before it reaches
\* add_order (ValueError of the validation, NameError of can_match) ends
\* REJECTED and leaves the levels and the id map as they were.
FailureBeforeAddOrder ==
    (last.op = "process_order" /\ last.exc \in {"ValueError", "NameError"}) =>
        /\ objs[last.h].status = REJECTED
        /\ Now = last.book

\* Such a call: an order met a quoted opposite side and was REJECTED by the
\* NameError of can_match.
RejectedByNameError ==
    /\ last.op = "process_order"
    /\ last.exc = "NameError"
    /\ objs[last.h].status = REJECTED
    /\ Now = last.book
    /\ orders # EmptyMap

====
